---- MODULE Spec2Model ----
(***************************************************************************)
(* TaskRunner of workflows/task_runner.py as a state machine.              *)
(*                                                                         *)
(* The runner lives on one asyncio event loop.  Task objects live on a     *)
(* heap (objs); the task map (tasks) and the asynchronous units point into *)
(* it, so an object that was deleted from the map, or replaced in it by    *)
(* load_tasks_from_file, is still the object its unit works on.            *)
(*                                                                         *)
(* execute_task runs up to its await in one step, the asynchronous unit    *)
(* it created is appended to the loop's ready queue, and the call resumes  *)
(* after the unit has ended.  A call in flight and the unit it awaits are  *)
(* one entry of units; the entry and every Task object nothing refers to   *)
(* any more are freed, as the interpreter frees them.  _run_task holds no  *)
(* await: once the loop starts it, nothing else runs until it has returned *)
(* (cur # 0 blocks every other action); its stages are separate steps only *)
(* so that the order of its writes can be stated.                          *)
(*                                                                         *)
(* execute_batch_tasks (lines 170-179) gathers one execute_task call per   *)
(* listed id behind a semaphore (batch): the loop starts the members in    *)
(* list order, each up to its await.  The semaphore and gather follow      *)
(* asyncio of the interpreter in use (3.11); the done callbacks of gather, *)
(* which touch nothing of the runner, are folded into the step that ends a *)
(* member.  One batch call is in flight at a time.                         *)
(*                                                                         *)
(* Spec is a program that calls the methods one by one, SpecNoLoad one     *)
(* that never loads a file, SpecBatch one that creates and deletes tasks   *)
(* and runs them in batches, SpecQueries one that fills and reads the map. *)
(* SpecFiles is a program that exports tasks and loads files, corrupt ones *)
(* too, SpecLife one that takes tasks with metadata through creation,      *)
(* batch, cancel and export, SpecNarrowBatch one whose batches have no     *)
(* slot or one.  Time (now) stands still in all of them but SpecClock,     *)
(* where the clock ticks between the steps of the calls and the pipeline.  *)
(***************************************************************************)
EXTENDS Integers, Sequences, FiniteSets, TLC

\* ------------------------------------------------------------------ bounds
MaxOps == 4     \* calls of the runner's methods that change its state
MaxTime == 2    \* ticks of the clock

\* task ids: a new id costs a state-changing call, one more is never known
TaskIds == 1..(MaxOps + 1)

\* ------------------------------------------------------- TaskStatus (enum)
PENDING   == "pending"
RUNNING   == "running"
COMPLETED == "completed"
FAILED    == "failed"
CANCELLED == "cancelled"
TaskStatus == {PENDING, RUNNING, COMPLETED, FAILED, CANCELLED}

None == "None"

\* --------------------------------------------------- collaborators' outputs
\* PromptParser.parse: the language of the ParsedPrompt, or an exception
Langs == {"", "python"}
\* CoderAgent.generate_code: the code of the CodeResult, or an exception
Codes == {"", "code"}
\* str(e) of the exception a stage raises
ParseErrors == {"parse failed"}
GenerateErrors == {"generate failed"}
\* PistonService.execute_code as validate_code_syntax sees it
ExecOutcomes == {"ok", "stderr", "raised"}

NoMeta == [key |-> "none", valid |-> FALSE, errors |-> None]

\* PistonService.validate_code_syntax: never raises, an exception of
\* execute_code becomes {"valid": False, "errors": str(e)}
validate_code_syntax(out) ==
    CASE out = "ok"     -> [key |-> "validation", valid |-> TRUE,  errors |-> None]
      [] out = "stderr" -> [key |-> "validation", valid |-> FALSE, errors |-> "stderr"]
      [] OTHER          -> [key |-> "validation", valid |-> FALSE, errors |-> "exception"]

CodeResult(code) == [code |-> code, metadata |-> NoMeta]
\* task.result is None
NoResult == [code |-> None, metadata |-> NoMeta]

\* what a caller passes to create_task: the description, and the metadata
\* (a dict, or None, which is the parameter's default)
Prompt == "prompt"
Descriptions == {Prompt}
Metadatas == {None, "{k: v}"}

\* line 53, `metadata or {}`: None and the empty dict give a new empty dict
MetadataOrEmpty(metadata) == IF metadata \in {None, "{}"} THEN "{}" ELSE metadata

\* a heap slot that holds no object
FreeObj ==
    [id |-> 0, description |-> None, status |-> "free", created_at |-> 0,
     updated_at |-> 0, result |-> NoResult, error |-> None, progress |-> 0,
     metadata |-> None]

\* a slot of units that holds no call
FreeUnit ==
    [id |-> 0, obj |-> 0, pc |-> "free", must_cancel |-> FALSE,
     language |-> None, code |-> None, metadata |-> NoMeta]

\* every object and every call in flight was made by a state-changing call
Objs  == 1..MaxOps
Units == 1..MaxOps

VARIABLES
    now,            \* the wall clock, what datetime.now() returns
    objs,           \* heap of Task objects
    tasks,          \* self.tasks: Seq of [id, obj] in dict (insertion) order
    running_tasks,  \* self.running_tasks: id -> unit (0: no entry)
    units,          \* execute_task calls in flight, each with its asyncio.Task
    ready,          \* the event loop's ready queue
    cur,            \* unit the loop is inside of (0: none)
    ret,            \* what the call that just ended returned or raised
    used,           \* ids that have ever been in the map
    nops,           \* state-changing calls so far
    batch           \* the execute_batch_tasks call in flight

vars == <<now, objs, tasks, running_tasks, units, ready, cur, ret, used, nops, batch>>

\* a Task that is born running
Task_Started(id, description, metadata) ==
    [id |-> id, description |-> description, status |-> RUNNING,
     created_at |-> now, updated_at |-> now, result |-> NoResult,
     error |-> None, progress |-> 10, metadata |-> metadata]

\* Task(id=..., description=..., metadata=...) with the dataclass defaults
\* (lines 24-34): both timestamps are taken when the object is made
Task(id, description, metadata) ==
    [id |-> id, description |-> description, status |-> PENDING,
     created_at |-> now, updated_at |-> now, result |-> NoResult,
     error |-> None, progress |-> 0, metadata |-> metadata]

\* ---------------------------------------------------------------- helpers
RECURSIVE IndexOf(_, _, _)
IndexOf(s, id, k) ==
    IF k > Len(s) THEN 0
    ELSE IF s[k].id = id THEN k ELSE IndexOf(s, id, k + 1)

\* task_id in self.tasks
HasTask(id) == IndexOf(tasks, id, 1) # 0
\* self.tasks.get(task_id): the heap index of the object (0: None)
get_task(id) == IF HasTask(id) THEN tasks[IndexOf(tasks, id, 1)].obj ELSE 0

\* a map that puts a new key in front
SetTask_First(m, id, o) ==
    IF IndexOf(m, id, 1) # 0
    THEN [m EXCEPT ![IndexOf(m, id, 1)] = [id |-> id, obj |-> o]]
    ELSE <<[id |-> id, obj |-> o]>> \o m

\* self.tasks[id] = obj: a known key keeps its place in the dict
SetTask(m, id, o) ==
    IF IndexOf(m, id, 1) # 0
    THEN [m EXCEPT ![IndexOf(m, id, 1)] = [id |-> id, obj |-> o]]
    ELSE Append(m, [id |-> id, obj |-> o])

\* a delete that leaves the entry in the map
DelTask_Kept(m, id) == m

\* del self.tasks[id]
DelTask(m, id) == SelectSeq(m, LAMBDA e : e.id # id)

\* the first free slot of the heap, of units (0: none)
FreeObjs(heap) == {o \in Objs : heap[o] = FreeObj}
Alloc(heap) ==
    IF FreeObjs(heap) = {} THEN 0
    ELSE CHOOSE o \in FreeObjs(heap) : \A p \in FreeObjs(heap) : o <= p
FreeUnits == {u \in Units : units[u] = FreeUnit}
AllocUnit ==
    IF FreeUnits = {} THEN 0
    ELSE CHOOSE u \in FreeUnits : \A v \in FreeUnits : u <= v

\* reference counting: an object neither the map nor a unit refers to is freed
Referenced(o, map, us) ==
    \/ \E k \in 1..Len(map) : map[k].obj = o
    \/ \E u \in Units : us[u].obj = o
Collect(heap, map, us) ==
    [o \in Objs |-> IF Referenced(o, map, us) THEN heap[o] ELSE FreeObj]

\* True, False as ret holds them
Bool(b) == IF b THEN "True" ELSE "False"

\* ret when no call has a value to hand over
NoReturn == [op |-> "none", id |-> 0, val |-> None]

\* batch when no execute_batch_tasks call is in flight
NoBatch ==
    [pc |-> "none", task_ids |-> <<>>, max_concurrent |-> 0, value |-> 0,
     waiters |-> <<>>, members |-> <<>>, results |-> <<>>]

Init ==
    /\ now = 0
    /\ objs = [o \in Objs |-> FreeObj]
    /\ tasks = <<>>
    /\ running_tasks = [i \in TaskIds |-> 0]
    /\ units = [u \in Units |-> FreeUnit]
    /\ ready = <<>>
    /\ cur = 0
    /\ ret = NoReturn
    /\ used = {}
    /\ nops = 0
    /\ batch = NoBatch

\* the ids a caller passes: those that have been in the map and one that has
\* not (ids that never were in the map are all alike to the runner)
NewId == CHOOSE i \in TaskIds \ used : \A j \in TaskIds \ used : i <= j
CallerIds == used \cup {NewId}

\* ------------------------------------------------------------ create_task
\* uuid4 gives an id no task of this runner ever had
create_task(id, description, metadata) ==
    /\ cur = 0
    /\ ret = NoReturn
    /\ id = NewId
    /\ Alloc(objs) # 0
    /\ objs' = [objs EXCEPT ![Alloc(objs)] =
                   Task(id, description, MetadataOrEmpty(metadata))]
    /\ tasks' = SetTask(tasks, id, Alloc(objs))
    /\ used' = used \cup {id}
    /\ ret' = [op |-> "create_task", id |-> id, val |-> None]
    /\ nops < MaxOps
    /\ nops' = nops + 1
    /\ UNCHANGED <<now, running_tasks, units, ready, cur, batch>>

\* ----------------------------------------------------------- execute_task
\* execute_task that checks only that the task exists
PreconditionError_OnlyMissing(id) ==
    IF get_task(id) = 0 THEN "not found" ELSE None

\* lines 72-77: the error execute_task raises before it does anything
\* (None: the task exists and is PENDING)
PreconditionError(id) ==
    IF get_task(id) = 0 THEN "not found"
    ELSE IF objs[get_task(id)].status # PENDING THEN "not in pending status"
    ELSE None

\* asyncio.create_task(self._run_task(task)): scheduled, not yet started
NewUnit(id, o) ==
    [id |-> id, obj |-> o, pc |-> "scheduled", must_cancel |-> FALSE,
     language |-> None, code |-> None, metadata |-> NoMeta]

\* execute_task up to `await async_task` (lines 72-84)
execute_task(id) ==
    /\ cur = 0
    /\ ret = NoReturn
    /\ AllocUnit # 0
    /\ LET e == PreconditionError(id)
           u == AllocUnit
       IN  IF e # None
           THEN /\ ret' = [op |-> "execute_task", id |-> id, val |-> e]
                /\ UNCHANGED <<running_tasks, units, ready, nops>>
           ELSE /\ ret' = NoReturn
                /\ nops < MaxOps
                /\ nops' = nops + 1
                /\ units' = [units EXCEPT ![u] = NewUnit(id, get_task(id))]
                /\ running_tasks' = [running_tasks EXCEPT ![id] = u]
                /\ ready' = Append(ready, [kind |-> "unit", n |-> u])
    /\ UNCHANGED <<now, objs, tasks, cur, used, batch>>

\* the unit ended (returned or was cancelled): its awaiter is woken
WakeCaller(q, u) == Append(q, [kind |-> "call", n |-> u])

\* an execute_task without its finally
PoppedHandles_Kept(id) == running_tasks

\* line 86: the finally pops whatever entry the id has
PoppedHandles(id) == [running_tasks EXCEPT ![id] = 0]

\* what the awaited unit hands to execute_task, which passes it on
Outcome(u) == IF u.pc = "cancelled" THEN "CancelledError" ELSE "task"

\* the member of the batch whose execute_task call awaits unit u (0: the call
\* was made by the caller directly)
MemberOf(u) ==
    IF \E i \in 1..Len(batch.members) : batch.members[i].unit = u
    THEN CHOOSE i \in 1..Len(batch.members) : batch.members[i].unit = u
    ELSE 0

\* the rest of execute_task (lines 84-86): the finally, then the unit's
\* result is returned or its CancelledError raised
resume_execute_task ==
    /\ cur = 0
    /\ ret = NoReturn
    /\ ready # <<>>
    /\ Head(ready).kind = "call"
    /\ MemberOf(Head(ready).n) = 0
    /\ LET u == Head(ready).n
           us == [units EXCEPT ![u] = FreeUnit]
       IN  /\ running_tasks' = PoppedHandles(units[u].id)
           /\ ret' = [op |-> "execute_task", id |-> units[u].id,
                      val |-> Outcome(units[u])]
           /\ units' = us
           /\ objs' = Collect(objs, tasks, us)
    /\ ready' = Tail(ready)
    /\ UNCHANGED <<now, tasks, cur, used, nops, batch>>

\* -------------------------------------------------------------- _run_task
\* a pipeline that starts at the progress of the parsed prompt
StartedTask_Progress30(t) == [t EXCEPT !.status = RUNNING, !.updated_at = now, !.progress = 30]
\* lines 91-93
StartedTask(t) == [t EXCEPT !.status = RUNNING, !.updated_at = now, !.progress = 10]
\* lines 124-126
FailedTask(t, msg) == [t EXCEPT !.status = FAILED, !.error = msg, !.updated_at = now]

\* step 4 without line 120
CompletedTask_ProgressKept(t, code_result) ==
    [t EXCEPT !.result = code_result, !.status = COMPLETED, !.updated_at = now]
\* step 4 that fails the task when the validator reported invalid code
CompletedTask_FailsInvalid(t, code_result) ==
    IF code_result.metadata.key = "validation" /\ ~code_result.metadata.valid
    THEN FailedTask(t, "validation failed")
    ELSE [t EXCEPT !.result = code_result, !.status = COMPLETED, !.progress = 100,
                   !.updated_at = now]

\* step 4 that files the validation outcome under the task's own metadata
CompletedTask_MetadataOnTask(t, code_result) ==
    [t EXCEPT !.result = code_result, !.status = COMPLETED, !.progress = 100,
              !.updated_at = now, !.metadata = code_result.metadata.key]

\* lines 118-121
CompletedTask(t, code_result) ==
    [t EXCEPT !.result = code_result, !.status = COMPLETED, !.progress = 100,
              !.updated_at = now]

\* the loop takes the unit from the ready queue: a unit cancelled before its
\* first step ends cancelled without running a line of _run_task
run_task_start ==
    /\ cur = 0
    /\ ret = NoReturn
    /\ ready # <<>>
    /\ Head(ready).kind = "unit"
    /\ LET u == Head(ready).n
       IN  IF units[u].must_cancel
           THEN /\ units' = [units EXCEPT ![u].pc = "cancelled"]
                /\ ready' = WakeCaller(Tail(ready), u)
                /\ UNCHANGED <<objs, cur>>
           ELSE /\ objs' = [objs EXCEPT ![units[u].obj] = StartedTask(@)]
                /\ units' = [units EXCEPT ![u].pc = "parse"]
                /\ cur' = u
                /\ ready' = Tail(ready)
    /\ ret' = NoReturn
    /\ UNCHANGED <<now, tasks, running_tasks, used, nops, batch>>

\* _run_task returned: its locals are gone
EndedUnit(u) ==
    [u EXCEPT !.pc = "done", !.language = None, !.code = None, !.metadata = NoMeta]

\* the except branch (lines 123-128) and the unit's end
run_task_fail(msg) ==
    /\ objs' = [objs EXCEPT ![units[cur].obj] = FailedTask(@, msg)]
    /\ units' = [units EXCEPT ![cur] = EndedUnit(@)]
    /\ ready' = WakeCaller(ready, cur)
    /\ cur' = 0
    /\ ret' = NoReturn
    /\ UNCHANGED <<now, tasks, running_tasks, used, nops, batch>>

\* line 96-97: the parser returns
run_task_parse(lang) ==
    /\ cur # 0
    /\ units[cur].pc = "parse"
    /\ objs' = [objs EXCEPT ![units[cur].obj].progress = 30]
    /\ units' = [units EXCEPT ![cur].pc = "generate", ![cur].language = lang]
    /\ ret' = NoReturn
    /\ UNCHANGED <<now, tasks, running_tasks, ready, cur, used, nops, batch>>

\* line 96: the parser raises
run_task_parse_raises(msg) ==
    /\ cur # 0
    /\ units[cur].pc = "parse"
    /\ run_task_fail(msg)

\* lines 100-101: the generator returns
run_task_generate(code) ==
    /\ cur # 0
    /\ units[cur].pc = "generate"
    /\ objs' = [objs EXCEPT ![units[cur].obj].progress = 60]
    /\ units' = [units EXCEPT ![cur].pc = "validate", ![cur].code = code]
    /\ ret' = NoReturn
    /\ UNCHANGED <<now, tasks, running_tasks, ready, cur, used, nops, batch>>

\* line 100: the generator raises
run_task_generate_raises(msg) ==
    /\ cur # 0
    /\ units[cur].pc = "generate"
    /\ run_task_fail(msg)

\* line 104 asking for code only
NeedsValidation_CodeOnly(u) == u.code # ""

\* line 104
NeedsValidation(u) == u.code # "" /\ u.language # ""

\* lines 104-115: the validation step, taken or skipped, then progress 90
run_task_validate(out) ==
    /\ cur # 0
    /\ units[cur].pc = "validate"
    /\ objs' = [objs EXCEPT ![units[cur].obj].progress = 90]
    /\ units' = [units EXCEPT ![cur].pc = "complete",
                              ![cur].metadata =
                                  IF NeedsValidation(units[cur])
                                  THEN validate_code_syntax(out) ELSE @]
    /\ ret' = NoReturn
    /\ UNCHANGED <<now, tasks, running_tasks, ready, cur, used, nops, batch>>

\* lines 118-128
run_task_complete ==
    /\ cur # 0
    /\ units[cur].pc = "complete"
    /\ objs' = [objs EXCEPT ![units[cur].obj] =
                   CompletedTask(@, [code |-> units[cur].code,
                                     metadata |-> units[cur].metadata])]
    /\ units' = [units EXCEPT ![cur] = EndedUnit(@)]
    /\ ready' = WakeCaller(ready, cur)
    /\ cur' = 0
    /\ ret' = NoReturn
    /\ UNCHANGED <<now, tasks, running_tasks, used, nops, batch>>

\* ------------------------------------------------------------ cancel_task
\* asyncio.Task.cancel(): a unit that has ended is left alone, one that has
\* not started is cancelled at its first step
CancelUnit(us, u) ==
    IF u # 0 /\ us[u].pc = "scheduled" THEN [us EXCEPT ![u].must_cancel = TRUE] ELSE us

\* line 136 letting a PENDING task be cancelled too
Cancellable_AlsoPending(id) ==
    get_task(id) # 0 /\ objs[get_task(id)].status \in {RUNNING, PENDING}

\* line 136
Cancellable(id) == get_task(id) # 0 /\ objs[get_task(id)].status = RUNNING

\* cancel_task without line 141
CancelledTask_StatusKept(t) == t

\* lines 141-142
CancelledTask(t) == [t EXCEPT !.status = CANCELLED, !.updated_at = now]

\* the effect of cancel_task on the heap and on the units (lines 132-145)
cancel_objs(id) ==
    IF Cancellable(id) THEN [objs EXCEPT ![get_task(id)] = CancelledTask(@)] ELSE objs
cancel_units(id) ==
    IF Cancellable(id) THEN CancelUnit(units, running_tasks[id]) ELSE units

cancel_task(id) ==
    /\ cur = 0
    /\ ret = NoReturn
    /\ objs' = cancel_objs(id)
    /\ units' = cancel_units(id)
    /\ ret' = [op |-> "cancel_task", id |-> id, val |-> Bool(Cancellable(id))]
    /\ nops' = IF Cancellable(id) THEN nops + 1 ELSE nops
    /\ nops' <= MaxOps
    /\ UNCHANGED <<now, tasks, running_tasks, ready, cur, used, batch>>

\* ------------------------------------------------------------ delete_task
\* lines 149-154: cancel_task(task_id), then del self.tasks[task_id]
delete_task(id) ==
    /\ cur = 0
    /\ ret = NoReturn
    /\ IF HasTask(id)
       THEN /\ units' = cancel_units(id)
            /\ tasks' = DelTask(tasks, id)
            /\ objs' = Collect(cancel_objs(id), DelTask(tasks, id), cancel_units(id))
       ELSE UNCHANGED <<objs, units, tasks>>
    /\ ret' = [op |-> "delete_task", id |-> id, val |-> Bool(HasTask(id))]
    /\ nops' = IF HasTask(id) THEN nops + 1 ELSE nops
    /\ nops' <= MaxOps
    /\ UNCHANGED <<now, running_tasks, ready, cur, used, batch>>

\* --------------------------------------------------- load_tasks_from_file
\* datetime.isoformat() and datetime.fromisoformat(): the string of a naive
\* datetime holds it to the microsecond; a string that is no timestamp makes
\* fromisoformat raise ValueError
isoformat(t) == [iso |-> TRUE, t |-> t]
NotATimestamp == [iso |-> FALSE, t |-> 0]
fromisoformat(str) == str.t

\* a key the record does not have
Missing == "missing"

\* the task records a file can hold: the loader trusts every field
FileShapes ==
    { [status |-> PENDING,   progress |-> 0,   result |-> NoResult,           error |-> None],
      [status |-> RUNNING,   progress |-> 10,  result |-> NoResult,           error |-> None],
      [status |-> COMPLETED, progress |-> 100, result |-> CodeResult("code"), error |-> None],
      [status |-> FAILED,    progress |-> 30,  result |-> NoResult,           error |-> "boom"],
      [status |-> CANCELLED, progress |-> 10,  result |-> NoResult,           error |-> None],
      [status |-> COMPLETED, progress |-> 60,  result |-> NoResult,           error |-> None] }

\* a record as export_task_results wrote it when the clock was at 0, for a
\* task made by create_task(Prompt)
FileRecord(i, r) ==
    [id |-> i, description |-> Prompt, status |-> r.status,
     created_at |-> isoformat(0), updated_at |-> isoformat(0),
     progress |-> r.progress, metadata |-> "{}",
     result |-> r.result, error |-> r.error]

FileRecords == {FileRecord(i, r) : i \in CallerIds, r \in FileShapes}
Files == {<<r>> : r \in FileRecords}

\* records the loader cannot build a Task from: "description" is not a key,
\* the status is none of the enum's values, a timestamp is no ISO string
CorruptRecords ==
    LET r == FileRecord(NewId, CHOOSE x \in FileShapes : x.status = PENDING)
    IN  { [r EXCEPT !.description = Missing],
          [r EXCEPT !.status = "bogus"],
          [r EXCEPT !.updated_at = NotATimestamp] }

\* files whose last record is corrupt, alone or behind a well-formed record
CorruptFiles ==
    {<<c>> : c \in CorruptRecords}
        \cup {<<r, c>> : r \in {x \in FileRecords : x.status = COMPLETED /\ x.progress = 100},
                         c \in CorruptRecords}

\* lines 232-240: what Task(...) of a record raises while its arguments are
\* evaluated, in their order (None: the Task is built)
LoadError(r) ==
    IF r.description = Missing THEN "KeyError"
    ELSE IF r.status \notin TaskStatus THEN "ValueError"
    ELSE IF ~r.created_at.iso \/ ~r.updated_at.iso THEN "ValueError"
    ELSE None

\* lines 232-253: the Task built from one record; a record without
\* "metadata" gets an empty dict
LoadedTask(r) ==
    [id |-> r.id, description |-> r.description, status |-> r.status,
     created_at |-> fromisoformat(r.created_at),
     updated_at |-> fromisoformat(r.updated_at),
     result |-> r.result, error |-> r.error, progress |-> r.progress,
     metadata |-> IF r.metadata = Missing THEN "{}" ELSE r.metadata]

\* the loop of lines 231-255 from record k on: the exception of a record
\* ends it, the records before it are in the map by then (line 255)
RECURSIVE LoadFrom(_, _, _, _)
LoadFrom(file, k, heap, map) ==
    IF k > Len(file) THEN [objs |-> heap, tasks |-> map, error |-> None]
    ELSE IF LoadError(file[k]) # None
    THEN [objs |-> heap, tasks |-> map, error |-> LoadError(file[k])]
    ELSE LoadFrom(file, k + 1,
                  [heap EXCEPT ![Alloc(heap)] = LoadedTask(file[k])],
                  SetTask(map, file[k].id, Alloc(heap)))

load_tasks_from_file(file) ==
    /\ cur = 0
    /\ ret = NoReturn
    /\ nops < MaxOps
    /\ Cardinality(FreeObjs(objs)) >= Len(file)
    /\ LET r == LoadFrom(file, 1, objs, tasks)
       IN  /\ objs' = Collect(r.objs, r.tasks, units)
           /\ tasks' = r.tasks
           /\ used' = used \cup {r.tasks[k].id : k \in 1..Len(r.tasks)}
           /\ ret' = [op |-> "load_tasks_from_file", id |-> 0, val |-> r.error]
    /\ nops' = nops + 1
    /\ UNCHANGED <<now, running_tasks, units, ready, cur, batch>>

\* ---------------------------------------------------- get_task_statistics
\* the tasks of a runner, in the order of its map
TasksOf(heap, map) == [k \in 1..Len(map) |-> heap[map[k].obj]]

\* lines 66-68: the tasks of the map with this status, in the map's order
get_tasks_by_status(status) ==
    SelectSeq(TasksOf(objs, tasks), LAMBDA t : t.status = status)

\* lines 158-168
get_task_statistics ==
    [total_tasks   |-> Len(tasks),
     status_counts |-> [status \in TaskStatus |-> Len(get_tasks_by_status(status))],
     running_tasks |-> Cardinality({id \in TaskIds : running_tasks[id] # 0})]

\* ---------------------------------------------------- export_task_results
\* `if task.result:`, `if task.error:` (lines 202, 211): None and "" are false
Truthy(x) == x \notin {None, ""}

\* lines 191-213: the record of one task; of the result the five dataclass
\* fields are written (here code), not the metadata _run_task attached to it;
\* "result" and "error" are keys of the record only when they are true
ExportedTask(t) ==
    [id |-> t.id, description |-> t.description, status |-> t.status,
     created_at |-> isoformat(t.created_at), updated_at |-> isoformat(t.updated_at),
     progress |-> t.progress, metadata |-> t.metadata,
     result |-> IF t.result # NoResult THEN CodeResult(t.result.code) ELSE NoResult,
     error |-> IF Truthy(t.error) THEN t.error ELSE None]

\* export_task_results() of all tasks (lines 183-184, 189-214), as
\* save_tasks_to_file writes it
export_task_results ==
    [k \in 1..Len(tasks) |-> ExportedTask(objs[tasks[k].obj])]

\* the task_ids a caller passes to export_task_results: None (the default)
\* or a list of ids
AllTasks == [none |-> TRUE, ids |-> <<>>]
Listed(ids) == [none |-> FALSE, ids |-> ids]

\* an export that goes through the map and takes the tasks that are listed
tasks_to_export_MapOrder(task_ids) ==
    IF task_ids.none THEN TasksOf(objs, tasks)
    ELSE SelectSeq(TasksOf(objs, tasks),
                   LAMBDA t : \E k \in 1..Len(task_ids.ids) : task_ids.ids[k] = t.id)

\* lines 183-186: the tasks of the map, or those of the listed ids that are
\* keys of the map, in the order of the list
tasks_to_export(task_ids) ==
    IF task_ids.none THEN TasksOf(objs, tasks)
    ELSE LET known == SelectSeq(task_ids.ids, HasTask)
         IN  [k \in 1..Len(known) |-> objs[get_task(known[k])]]

\* lines 188-218: the exported dictionary
exported(task_ids) ==
    LET tasks_to_export_ == tasks_to_export(task_ids)
        exported_tasks ==
            [k \in 1..Len(tasks_to_export_) |-> ExportedTask(tasks_to_export_[k])]
    IN  [tasks |-> exported_tasks, exported_at |-> isoformat(now),
         total_count |-> Len(exported_tasks)]

\* the runner a file is loaded into right after construction
LoadedIntoEmpty(file) == LoadFrom(file, 1, [o \in Objs |-> FreeObj], <<>>)

\* ---------------------------------------------------- execute_batch_tasks
\* the lists of ids and the limits a caller passes (each member costs a call)
DefaultMaxConcurrent == 3
Limits == 1..DefaultMaxConcurrent
IdLists(n) == UNION {[1..k -> CallerIds] : k \in 0..n}

\* line 177: one execute_with_semaphore coroutine per listed id
NewMember == [pc |-> "scheduled", unit |-> 0, outcome |-> None]

\* a semaphore that is locked only by those who wait
locked_OnlyWaiters(b) == b.waiters # <<>>

\* asyncio.Semaphore.locked(): no waiter of a batch is ever cancelled
locked(b) == b.value = 0 \/ b.waiters # <<>>

\* the waiters whose future is not done yet, in the order of the deque
Waiting(b) == SelectSeq(b.waiters, LAMBDA i : b.members[i].pc = "waiting")

\* Semaphore._wake_up_next that wakes the waiter that came last
wake_up_next_Last(b) ==
    IF Waiting(b) = <<>> THEN b
    ELSE [b EXCEPT !.value = @ - 1,
                   !.members[Waiting(b)[Len(Waiting(b))]].pc = "woken"]

\* Semaphore._wake_up_next: the first waiter that is not done gets the slot
wake_up_next(b) ==
    IF Waiting(b) = <<>> THEN b
    ELSE [b EXCEPT !.value = @ - 1, !.members[Head(Waiting(b))].pc = "woken"]

\* leaving `async with semaphore` without releasing
release_Kept(b) == b

\* Semaphore.release, on leaving `async with semaphore` (line 174)
release(b) == wake_up_next([b EXCEPT !.value = @ + 1])

\* Semaphore.acquire that admits everybody
acquire_Unlimited(b, i) == [b EXCEPT !.members[i].pc = "admitted"]

\* Semaphore.acquire up to its await, by a member that starts (line 174)
acquire(b, i) ==
    IF ~locked(b)
    THEN [b EXCEPT !.value = @ - 1, !.members[i].pc = "admitted"]
    ELSE [b EXCEPT !.waiters = Append(@, i), !.members[i].pc = "waiting"]

\* the rest of Semaphore.acquire, by a member that was woken
acquired(b, i) ==
    LET b1 == [b EXCEPT !.waiters = SelectSeq(@, LAMBDA j : j # i),
                        !.members[i].pc = "admitted"]
    IN  IF b1.value > 0 THEN wake_up_next(b1) ELSE b1

\* the member's execute_task call ended with outcome val: the semaphore is
\* released and gather keeps val for position i
Finished(b, i, val) ==
    release([b EXCEPT !.members[i] = [pc |-> "done", unit |-> 0, outcome |-> val]])

\* a gather that is content with the first child that is done
AllDone_Any(b) == \E i \in 1..Len(b.members) : b.members[i].pc = "done"

\* every child of gather is done
AllDone(b) == \A i \in 1..Len(b.members) : b.members[i].pc = "done"

\* what the step from b to b1 appends to the ready queue: the members it woke,
\* in the order of the deque, and the batch call once gather has every result
Wakeups(b, b1) ==
    LET woken  == SelectSeq(b.waiters, LAMBDA i : b.members[i].pc = "waiting"
                                                   /\ b1.members[i].pc = "woken")
        wakes  == [k \in 1..Len(woken) |-> [kind |-> "member", n |-> woken[k]]]
    IN  wakes \o (IF AllDone(b1) THEN <<[kind |-> "batch", n |-> 0]>> ELSE <<>>)

\* lines 172-179 up to `await asyncio.gather(...)`: gather wraps the
\* coroutines in tasks, in list order; of an empty list it is done at once
execute_batch_tasks(task_ids, max_concurrent) ==
    /\ cur = 0
    /\ ret = NoReturn
    /\ batch = NoBatch
    /\ nops + Len(task_ids) <= MaxOps
    /\ nops' = nops + Len(task_ids)
    /\ used' = used \cup {task_ids[i] : i \in 1..Len(task_ids)}
    /\ IF task_ids = <<>>
       THEN /\ batch' = [NoBatch EXCEPT !.pc = "returned"]
            /\ ret' = [op |-> "execute_batch_tasks", id |-> 0, val |-> "list"]
            /\ ready' = ready
       ELSE /\ batch' = [pc |-> "gathering", task_ids |-> task_ids,
                         max_concurrent |-> max_concurrent,
                         value |-> max_concurrent, waiters |-> <<>>,
                         members |-> [i \in 1..Len(task_ids) |-> NewMember],
                         results |-> <<>>]
            /\ ret' = NoReturn
            /\ ready' = ready \o [i \in 1..Len(task_ids) |->
                                     [kind |-> "member", n |-> i]]
    /\ UNCHANGED <<now, objs, tasks, running_tasks, units, cur>>

\* execute_with_semaphore (lines 174-176) run by the loop: a member starts or
\* goes on after its wake-up; with the semaphore it calls execute_task, which
\* raises at once or schedules its unit and awaits it
member_step ==
    /\ cur = 0
    /\ ret = NoReturn
    /\ ready # <<>>
    /\ Head(ready).kind = "member"
    /\ LET i  == Head(ready).n
           id == batch.task_ids[i]
           b1 == IF batch.members[i].pc = "scheduled"
                 THEN acquire(batch, i) ELSE acquired(batch, i)
           e  == PreconditionError(id)
           u  == AllocUnit
       IN  IF b1.members[i].pc = "waiting"
           THEN /\ batch' = b1
                /\ ready' = Tail(ready)
                /\ UNCHANGED <<units, running_tasks>>
           ELSE IF e # None
           THEN /\ batch' = Finished(b1, i, e)
                /\ ready' = Tail(ready) \o Wakeups(batch, batch')
                /\ UNCHANGED <<units, running_tasks>>
           ELSE /\ u # 0
                /\ batch' = [b1 EXCEPT !.members[i].pc = "executing",
                                       !.members[i].unit = u]
                /\ units' = [units EXCEPT ![u] = NewUnit(id, get_task(id))]
                /\ running_tasks' = [running_tasks EXCEPT ![id] = u]
                /\ ready' = (Tail(ready) \o Wakeups(batch, batch'))
                               \o <<[kind |-> "unit", n |-> u]>>
    /\ UNCHANGED <<now, objs, tasks, cur, ret, used, nops>>

\* gather's list with the members' outcomes in another order
Results_Reversed(b) ==
    [i \in 1..Len(b.members) |->
        [id |-> b.task_ids[Len(b.members) + 1 - i],
         val |-> b.members[Len(b.members) + 1 - i].outcome]]

\* line 179: gather's list, the outcome of child i at position i
Results(b) ==
    [i \in 1..Len(b.members) |->
        [id |-> b.task_ids[i], val |-> b.members[i].outcome]]

\* the rest of a member's execute_task call (lines 84-86) and of
\* execute_with_semaphore: the finally, the outcome, the release
resume_member ==
    /\ cur = 0
    /\ ret = NoReturn
    /\ ready # <<>>
    /\ Head(ready).kind = "call"
    /\ MemberOf(Head(ready).n) # 0
    /\ LET u  == Head(ready).n
           us == [units EXCEPT ![u] = FreeUnit]
       IN  /\ running_tasks' = PoppedHandles(units[u].id)
           /\ units' = us
           /\ objs' = Collect(objs, tasks, us)
           /\ batch' = Finished(batch, MemberOf(u), Outcome(units[u]))
    /\ ready' = Tail(ready) \o Wakeups(batch, batch')
    /\ UNCHANGED <<now, tasks, cur, ret, used, nops>>

\* execute_batch_tasks goes on after its await and returns gather's list
return_batch ==
    /\ cur = 0
    /\ ret = NoReturn
    /\ ready # <<>>
    /\ Head(ready).kind = "batch"
    /\ ready' = Tail(ready)
    /\ batch' = [batch EXCEPT !.pc = "returned", !.results = Results(batch)]
    /\ ret' = [op |-> "execute_batch_tasks", id |-> 0, val |-> "list"]
    /\ UNCHANGED <<now, objs, tasks, running_tasks, units, cur, used, nops>>

\* ---------------------------------------------------------------- queries
\* lines 62-64: list(self.tasks.values())
get_all_tasks == TasksOf(objs, tasks)

\* a query hands its value to the caller and assigns nothing
Query(op, id, val) ==
    /\ cur = 0
    /\ ret = NoReturn
    /\ ret' = [op |-> op, id |-> id, val |-> val]
    /\ UNCHANGED <<now, objs, tasks, running_tasks, units, ready, cur, used, nops, batch>>

\* lines 58-60: self.tasks.get(task_id), None for an id that is not a key
call_get_task(id) ==
    Query("get_task", id, IF get_task(id) = 0 THEN None ELSE "task")
call_get_all_tasks ==
    Query("get_all_tasks", Len(get_all_tasks), "list")
call_get_tasks_by_status(status) ==
    Query("get_tasks_by_status", Len(get_tasks_by_status(status)), "list")
call_get_task_statistics ==
    Query("get_task_statistics", get_task_statistics.total_tasks, "dict")

\* export_task_results(task_ids) called: it builds a dictionary and assigns
\* nothing of the runner
call_export_task_results(task_ids) ==
    Query("export_task_results", exported(task_ids).total_count, "dict")

\* --------------------------------------------------------------- callers
\* a synchronous call, or an execute_task call that ended, hands its value to
\* its caller before anything else runs
returned ==
    /\ ret # NoReturn
    /\ ret' = NoReturn
    /\ batch' = IF batch.pc = "returned" THEN NoBatch ELSE batch
    /\ UNCHANGED <<now, objs, tasks, running_tasks, units, ready, cur, used, nops>>

\* time passes: the next datetime.now() gives a later time
tick ==
    /\ ret = NoReturn
    /\ now < MaxTime
    /\ now' = now + 1
    /\ UNCHANGED <<objs, tasks, running_tasks, units, ready, cur, ret, used, nops, batch>>

\* ------------------------------------------------------------------- Next
\* create_task, execute_task, cancel_task, delete_task and what the loop runs
\* for them
NextNoLoad ==
    \/ returned
    \/ \E id \in CallerIds : create_task(id, Prompt, None)
    \/ \E id \in CallerIds : execute_task(id)
    \/ resume_execute_task
    \/ run_task_start
    \/ \E lang \in Langs : run_task_parse(lang)
    \/ \E msg \in ParseErrors : run_task_parse_raises(msg)
    \/ \E code \in Codes : run_task_generate(code)
    \/ \E msg \in GenerateErrors : run_task_generate_raises(msg)
    \/ \E out \in ExecOutcomes : run_task_validate(out)
    \/ run_task_complete
    \/ \E id \in CallerIds : cancel_task(id)
    \/ \E id \in CallerIds : delete_task(id)

\* execute_batch_tasks and what the event loop runs for it
NextOfBatch ==
    \/ \E task_ids \in IdLists(MaxOps - nops), max_concurrent \in Limits :
          execute_batch_tasks(task_ids, max_concurrent)
    \/ member_step
    \/ resume_member
    \/ return_batch

\* the event loop inside _run_task
NextPipeline ==
    \/ run_task_start
    \/ \E lang \in Langs : run_task_parse(lang)
    \/ \E msg \in ParseErrors : run_task_parse_raises(msg)
    \/ \E code \in Codes : run_task_generate(code)
    \/ \E msg \in GenerateErrors : run_task_generate_raises(msg)
    \/ \E out \in ExecOutcomes : run_task_validate(out)
    \/ run_task_complete

\* a program that calls the runner's methods one by one
Next ==
    \/ NextNoLoad
    \/ \E file \in Files : load_tasks_from_file(file)

\* the queries
NextOfQueries ==
    \/ \E id \in CallerIds : call_get_task(id)
    \/ call_get_all_tasks
    \/ \E status \in TaskStatus : call_get_tasks_by_status(status)
    \/ call_get_task_statistics

\* a program that fills, empties and reads the task map
NextQueries ==
    \/ returned
    \/ \E id \in CallerIds : create_task(id, Prompt, None)
    \/ \E id \in CallerIds : delete_task(id)
    \/ \E file \in Files : load_tasks_from_file(file)
    \/ NextOfQueries

\* a program that runs its tasks in batches
NextBatch ==
    \/ returned
    \/ \E id \in CallerIds : create_task(id, Prompt, None)
    \/ \E id \in CallerIds : delete_task(id)
    \/ NextPipeline
    \/ NextOfBatch

\* the event loop at work for a batch: it runs the head of its ready queue,
\* and every stage of a pipeline returns or raises
LoopOfBatch ==
    \/ NextPipeline
    \/ member_step
    \/ resume_member
    \/ return_batch

\* the lists of at most n ids a caller passes
ExportArgs(n) == {AllTasks} \cup {Listed(ids) : ids \in IdLists(n)}

\* the files that hold a record saved while its task was RUNNING
RunningFiles == {file \in Files : file[1].status = RUNNING}

\* a program that takes tasks through their whole life: it creates them with
\* metadata of its own or loads them as they were saved while RUNNING, runs
\* them in batches with the default limit, cancels and exports them
NextLife ==
    \/ returned
    \/ \E id \in CallerIds, description \in Descriptions :
          create_task(id, description, "{k: v}")
    \/ \E id \in CallerIds : cancel_task(id)
    \/ \E file \in RunningFiles : load_tasks_from_file(file)
    \/ \E task_ids \in ExportArgs(1) : call_export_task_results(task_ids)
    \/ NextPipeline
    \/ \E task_ids \in IdLists(MaxOps - nops) :
          execute_batch_tasks(task_ids, DefaultMaxConcurrent)
    \/ member_step
    \/ resume_member
    \/ return_batch

\* the files that hold a record saved with a result or with an error
SettledFiles == {file \in Files : file[1].result # NoResult \/ file[1].error # None}

\* a program that keeps its tasks in files: it creates and deletes tasks,
\* exports them and loads files of settled tasks, corrupt ones among them
NextFiles ==
    \/ returned
    \/ \E id \in CallerIds : create_task(id, Prompt, None)
    \/ \E id \in CallerIds : delete_task(id)
    \/ \E file \in SettledFiles \cup CorruptFiles : load_tasks_from_file(file)
    \/ \E task_ids \in ExportArgs(2) : call_export_task_results(task_ids)

\* a program that runs and cancels tasks while time passes
NextClock ==
    \/ returned
    \/ tick
    \/ \E id \in CallerIds : create_task(id, Prompt, None)
    \/ \E id \in CallerIds : execute_task(id)
    \/ resume_execute_task
    \/ NextPipeline
    \/ \E id \in CallerIds : cancel_task(id)
    \/ \E file \in RunningFiles : load_tasks_from_file(file)

\* limits that leave no slot or one: asyncio.Semaphore(0) is a semaphore
\* that is locked from the start (a negative value raises ValueError)
NarrowLimits == 0..1

\* a program that runs its tasks in batches with such limits
NextNarrowBatch ==
    \/ returned
    \/ \E id \in CallerIds : create_task(id, Prompt, None)
    \/ \E id \in CallerIds : delete_task(id)
    \/ NextPipeline
    \/ \E task_ids \in IdLists(MaxOps - nops), max_concurrent \in NarrowLimits :
          execute_batch_tasks(task_ids, max_concurrent)
    \/ member_step
    \/ resume_member
    \/ return_batch

Spec == Init /\ [][Next]_vars

\* the runner of a program that runs batches with no slot or one
SpecNarrowBatch == Init /\ [][NextNarrowBatch]_vars

\* the runner of a program that runs and cancels tasks while time passes
SpecClock == Init /\ [][NextClock]_vars

\* the runner of a program that keeps its tasks in files
SpecFiles == Init /\ [][NextFiles]_vars

\* the runner of a program that takes tasks through their whole life
SpecLife == Init /\ [][NextLife]_vars

\* the runner of a program that never calls load_tasks_from_file
SpecNoLoad == Init /\ [][NextNoLoad]_vars

\* the runner of a program that keeps a task map and reads it
SpecQueries == Init /\ [][NextQueries]_vars

\* the runner of a program that calls execute_batch_tasks too
SpecBatch == Init /\ [][NextBatch]_vars

\* SpecBatch with callers that take what a call hands them and then give the
\* loop its turn: however many synchronous calls a caller makes in between,
\* the loop comes to run the head of its ready queue
FairSpecBatch == SpecBatch /\ WF_vars(returned) /\ SF_vars(LoopOfBatch)

\* ================================================================== claims
\* the objects of the task map
MapObjs == {tasks[k].obj : k \in 1..Len(tasks)}
\* the step hands this call's value to its caller
Returns(op) == ret = NoReturn /\ ret'.op = op
\* the frame of a call that must change nothing
RunnerUnchanged == UNCHANGED <<objs, tasks, running_tasks, units, ready, cur, batch>>
\* the unit the loop is inside of leaves this stage in the step
Leaves(stage) == cur # 0 /\ units[cur].pc = stage
\* the object of the unit the loop is inside of, before and after the step
CurObj == objs[units[cur].obj]
CurObjAfter == objs'[units[cur].obj]

\* ---- C1
C1_Equivalence ==
    \A o \in MapObjs : (objs[o].progress = 100) <=> (objs[o].status = COMPLETED)

\* C1 as stated: in every reachable state, load_tasks_from_file included,
\* every task of the map has progress 100 if and only if it is COMPLETED
C1_Original == C1_Equivalence

\* C1 amended: the map satisfies the equivalence after construction, and every
\* step but a load_tasks_from_file keeps it; only a loaded record breaks it
C1_KeptByAllButLoad ==
    [][(C1_Equivalence /\ ~Returns("load_tasks_from_file")) => C1_Equivalence']_vars

\* a pipeline completed a task of the map with code the validator accepted
C1_Witness ==
    \E o \in MapObjs :
        /\ objs[o].status = COMPLETED
        /\ objs[o].progress = 100
        /\ objs[o].result.metadata.key = "validation"
        /\ objs[o].result.metadata.valid

\* ---- C2
\* C2 as stated: no task has both result and error; a COMPLETED task has a
\* result and no error, a FAILED task an error and no result
C2_Original ==
    \A o \in MapObjs :
        /\ ~(objs[o].result # NoResult /\ objs[o].error # None)
        /\ objs[o].status = COMPLETED => objs[o].result # NoResult /\ objs[o].error = None
        /\ objs[o].status = FAILED => objs[o].error # None /\ objs[o].result = NoResult

\* ---- C3
Edges ==
    {<<PENDING, RUNNING>>, <<RUNNING, COMPLETED>>, <<RUNNING, FAILED>>,
     <<RUNNING, CANCELLED>>}

\* C3 as stated: a task object's status changes only along PENDING->RUNNING,
\* RUNNING->COMPLETED, RUNNING->FAILED, RUNNING->CANCELLED, so never once it
\* is COMPLETED, FAILED or CANCELLED
C3_Original ==
    [][\A o \in Objs :
          (objs[o] # FreeObj /\ objs'[o] # FreeObj /\ objs'[o].status # objs[o].status)
              => <<objs[o].status, objs'[o].status>> \in Edges]_vars

\* ---- C4
\* C4 as stated: _run_task starts once per task, i.e. only on a task that is
\* still PENDING (the call that passed the check is the only one)
C4_Original ==
    [][\A u \in Units :
          (units[u].pc = "scheduled" /\ units'[u].pc = "parse")
              => objs[units[u].obj].status = PENDING]_vars

\* ---- C5
\* C5: cancel_task on a RUNNING task returns True and leaves it CANCELLED, and
\* nothing ever writes to a CANCELLED task object again
C5_CancelledForGood ==
    [][/\ (Returns("cancel_task") /\ HasTask(ret'.id)
              /\ objs[get_task(ret'.id)].status = RUNNING)
          => (ret'.val = "True" /\ objs'[get_task(ret'.id)].status = CANCELLED)
       /\ \A o \in Objs :
             objs[o].status = CANCELLED => objs'[o] \in {objs[o], FreeObj}]_vars

\* cancel_task has just returned True for a task whose id has a handle
C5_Witness ==
    /\ ret.op = "cancel_task"
    /\ ret.val = "True"
    /\ running_tasks[ret.id] # 0
    /\ objs[get_task(ret.id)].status = CANCELLED

\* ---- C6
\* the precondition of execute_task, from the claim
C6_Precondition(id) == HasTask(id) /\ objs[get_task(id)].status = PENDING

\* C6: execute_task raises exactly when the id is unknown or the task is not
\* PENDING, and then changes nothing: no task, no handle, no unit, no stage
C6_RejectedCallChangesNothing ==
    [][/\ Returns("execute_task") /\ ret'.val \in {"not found", "not in pending status"}
          => /\ ~C6_Precondition(ret'.id)
             /\ ret'.val = "not found" <=> ~HasTask(ret'.id)
             /\ RunnerUnchanged
       /\ \A u \in Units :
             (units[u].pc = "free" /\ units'[u].pc = "scheduled")
                 => C6_Precondition(units'[u].id)]_vars

\* execute_task has just been refused for a task that is in the map
C6_Witness ==
    /\ ret.op = "execute_task"
    /\ ret.val = "not in pending status"
    /\ HasTask(ret.id)

\* ---- C7
\* C7: cancel_task returns True exactly for a task of the map that is RUNNING;
\* when it returns False nothing has changed
C7_CancelReturn ==
    [][Returns("cancel_task")
          => /\ ret'.val = "True"
                 <=> (HasTask(ret'.id) /\ objs[get_task(ret'.id)].status = RUNNING)
             /\ ret'.val = "False" => RunnerUnchanged]_vars

\* cancel_task has just returned False for a COMPLETED task
C7_Witness ==
    /\ ret.op = "cancel_task"
    /\ ret.val = "False"
    /\ HasTask(ret.id)
    /\ objs[get_task(ret.id)].status = COMPLETED

\* ---- C8
\* progress reached before the stage, and the messages the stage raises
ProgressBefore(stage) == IF stage = "parse" THEN 10 ELSE 30
ErrorsOf(stage) == IF stage = "parse" THEN ParseErrors ELSE GenerateErrors

\* C8 as stated: when the parser or the generator raises, the task ends FAILED
\* with the raised message as error, no result, and progress 10 or 30
C8_Original ==
    [][\A stage \in {"parse", "generate"} :
          (Leaves(stage) /\ units'[cur].pc = "done")
              => /\ CurObjAfter.status = FAILED
                 /\ CurObjAfter.error \in ErrorsOf(stage)
                 /\ CurObjAfter.result = NoResult
                 /\ CurObjAfter.progress = ProgressBefore(stage)]_vars

C10_Original == ~(ret.op = "execute_task" /\ ret.val = "CancelledError")

\* ---- C11
\* the members of the batch at this point of execute_with_semaphore
MembersAt(pc) == {i \in 1..Len(batch.members) : batch.members[i].pc = pc}

\* C11: while a batch is in flight at most max_concurrent of its members hold
\* the semaphore (are inside execute_task, or were handed a slot and are about
\* to enter it), and the semaphore's counter never goes below zero
C11_AtMostNInside ==
    /\ Cardinality(MembersAt("executing") \cup MembersAt("woken"))
           <= batch.max_concurrent
    /\ batch.value >= 0

\* the limiter is full: max_concurrent members are inside execute_task and
\* another one waits for a slot
C11_Witness ==
    /\ batch.pc = "gathering"
    /\ Cardinality(MembersAt("executing")) = batch.max_concurrent
    /\ MembersAt("waiting") # {}

\* ---- C12
\* member i ends in this step
Ends(i) == batch.members[i].pc # "done" /\ batch'.members[i].pc = "done"

\* the precondition errors of execute_task
PreconditionErrors == {"not found", "not in pending status"}

\* C12: the list execute_batch_tasks returns has one entry per listed id, and
\* entry i is the outcome of the execute_task call for task_ids[i]: the error
\* that call raised at once, or what the unit run for task_ids[i] handed back
C12_ResultsByPosition ==
    [][/\ (batch.pc # "returned" /\ batch'.pc = "returned")
          => /\ Len(batch'.results) = Len(batch'.task_ids)
             /\ \A i \in 1..Len(batch'.task_ids) :
                   /\ batch'.results[i].id = batch'.task_ids[i]
                   /\ batch'.results[i].val = batch'.members[i].outcome
                   /\ batch'.results[i].val # None
       /\ \A i \in 1..Len(batch.members) :
             Ends(i)
                 => IF batch.members[i].pc = "executing"
                    THEN /\ units[batch.members[i].unit].id = batch.task_ids[i]
                         /\ batch'.members[i].outcome = Outcome(units[batch.members[i].unit])
                    ELSE /\ batch'.members[i].outcome \in PreconditionErrors
                         /\ batch'.members[i].outcome = "not found"
                                <=> ~HasTask(batch.task_ids[i])
                         /\ batch'.members[i].outcome = "not in pending status"
                                <=> (HasTask(batch.task_ids[i])
                                     /\ objs[get_task(batch.task_ids[i])].status # PENDING)]_vars

\* a batch returned <<task, error>> although its second member, refused at
\* once, ended before the first one's pipeline ran
C12_Witness ==
    /\ batch.pc = "returned"
    /\ batch.max_concurrent = 2
    /\ Len(batch.results) = 2
    /\ batch.results[1].val = "task"
    /\ batch.results[2].val = "not found"

\* ---- C13
\* the slots of the semaphore are free or held by a member
SlotsAccounted(b) ==
    b.value + Cardinality({i \in 1..Len(b.members) :
                              b.members[i].pc \in {"executing", "woken"}})
        = b.max_concurrent

Terminal == {COMPLETED, FAILED, CANCELLED}

\* C13: a member that ends, with an error or with its task, gives its slot
\* back and ends nobody else; the batch goes on until every member has ended,
\* and it returns with all slots free, every captured outcome in its list and
\* every task it ran in a terminal status
C13_BatchGoesOn ==
    [][/\ \A i \in 1..Len(batch.members) :
             Ends(i)
                 => /\ SlotsAccounted(batch')
                    /\ batch'.pc = "gathering"
                    /\ \A j \in 1..Len(batch.members) :
                          (j # i /\ batch.members[j].pc # "done")
                              => batch'.members[j].pc # "done"
       /\ (batch.pc = "gathering" /\ batch'.pc = "returned")
             => /\ AllDone(batch)
                /\ batch.value = batch.max_concurrent
                /\ \A i \in 1..Len(batch.members) :
                      /\ batch'.results[i].val \in PreconditionErrors \cup {"task"}
                      /\ (batch'.results[i].val = "task" /\ HasTask(batch.task_ids[i]))
                            => objs[get_task(batch.task_ids[i])].status \in Terminal]_vars

\* with one slot, the first member was refused and the second one's pipeline
\* still ran, and failed: the list holds the error and the FAILED task
C13_Witness ==
    /\ batch.pc = "returned"
    /\ batch.max_concurrent = 1
    /\ Len(batch.results) = 2
    /\ batch.results[1].val \in PreconditionErrors
    /\ batch.results[2].val = "task"
    /\ HasTask(batch.task_ids[2])
    /\ objs[get_task(batch.task_ids[2])].status = FAILED

\* ---- C14
\* member j, which had to wait, is handed a slot / enters execute_task
Woken(j) == batch.members[j].pc = "waiting" /\ batch'.members[j].pc = "woken"
Enters(j) ==
    batch.members[j].pc = "woken" /\ batch'.members[j].pc \in {"executing", "done"}

\* C14: members that wait for the limiter get their slots, and enter
\* execute_task, in the order of the list: when one does, no member listed
\* before it is still waiting or still on its way in
C14_FifoAdmission ==
    [][\A j \in 1..Len(batch.members) :
          /\ Woken(j) => \A i \in 1..(j - 1) : batch.members[i].pc # "waiting"
          /\ Enters(j)
                => \A i \in 1..(j - 1) :
                      batch.members[i].pc \notin {"scheduled", "waiting", "woken"}]_vars

\* two members had to wait: the one listed first has been handed the slot,
\* the other one is still waiting
C14_Witness ==
    \E i, j \in 1..Len(batch.members) :
        /\ i < j
        /\ batch.members[i].pc = "woken"
        /\ batch.members[j].pc = "waiting"

\* ---- C15
\* the batch is over: no slot is held and every listed task still in the map
\* has a terminal status
C15_AllSettled ==
    /\ batch.value = batch.max_concurrent
    /\ \A i \in 1..Len(batch.task_ids) :
          HasTask(batch.task_ids[i])
              => objs[get_task(batch.task_ids[i])].status \in Terminal

\* C15: as long as the loop keeps running and every stage returns or raises,
\* an execute_batch_tasks call returns, and when it does every listed task
\* has a terminal status and no slot of the semaphore is held
C15_BatchTerminates ==
    /\ [](batch.pc = "returned" => C15_AllSettled)
    /\ (batch.pc = "gathering") ~> (batch.pc = "returned")

\* a batch of two different PENDING tasks with one slot has returned, both
\* tasks run
C15_Witness ==
    /\ batch.pc = "returned"
    /\ batch.max_concurrent = 1
    /\ Len(batch.task_ids) = 2
    /\ batch.task_ids[1] # batch.task_ids[2]
    /\ \A i \in 1..2 : batch.results[i].val = "task"
    /\ C15_AllSettled

\* ---- C16
\* C16 as stated: the tasks of a runner that loaded what this runner exports
\* are equal to this runner's tasks, field for field, metadata of the result
\* included
C16_Original ==
    LET r == LoadedIntoEmpty(export_task_results)
    IN  TasksOf(r.objs, r.tasks) = TasksOf(objs, tasks)

\* ---- C17
\* the position of id in the map after the step (0: not in the map)
IndexAfter(id) == IndexOf(tasks', id, 1)

\* C17: delete_task returns True exactly for an id of the map and then the id
\* is gone from the map, the other entries keep their order and their
\* objects, and no other object changes; a RUNNING task is CANCELLED first
\* and the unit of its handle signalled; False changes nothing
C17_DeleteTask ==
    [][Returns("delete_task")
          => LET id == ret'.id
                 o  == get_task(id)
                 u  == running_tasks[id]
             IN  /\ ret'.val = "True" <=> HasTask(id)
                 /\ ret'.val = "False" => RunnerUnchanged
                 /\ ret'.val = "True"
                       => /\ IndexAfter(id) = 0
                          /\ tasks' = SelectSeq(tasks, LAMBDA e : e.id # id)
                          /\ \A p \in Objs \ {o} : objs'[p] = objs[p]
                          /\ UNCHANGED <<running_tasks, ready, cur, batch>>
                          /\ IF objs[o].status = RUNNING
                             THEN /\ objs'[o] \in {FreeObj, [objs[o] EXCEPT !.status = CANCELLED]}
                                  /\ \A v \in Units :
                                        units'[v] =
                                            IF v = u /\ units[v].pc = "scheduled"
                                            THEN [units[v] EXCEPT !.must_cancel = TRUE]
                                            ELSE units[v]
                             ELSE /\ objs'[o] \in {FreeObj, objs[o]}
                                  /\ units' = units]_vars

\* delete_task has just removed a RUNNING task: the unit of its handle is
\* signalled and the object it holds is CANCELLED
C17_Witness ==
    /\ ret.op = "delete_task"
    /\ ret.val = "True"
    /\ ~HasTask(ret.id)
    /\ \E u \in Units :
          /\ units[u].id = ret.id
          /\ units[u].must_cancel
          /\ running_tasks[ret.id] = u

\* ---- C18
\* the execute_task calls that have started and not yet returned or raised
CallsInFlight == {u \in Units : units[u] # FreeUnit}

\* C18 as stated: whenever a caller can ask, get_task_statistics gives the
\* size of the map, a count for each of the five statuses that add up to it,
\* and as running_tasks the number of execute_task calls in flight
C18_Original ==
    (cur = 0 /\ ret = NoReturn)
        => LET st == get_task_statistics
           IN  /\ st.total_tasks = Len(tasks)
               /\ DOMAIN st.status_counts = TaskStatus
               /\ st.status_counts[PENDING] + st.status_counts[RUNNING]
                      + st.status_counts[COMPLETED] + st.status_counts[FAILED]
                      + st.status_counts[CANCELLED] = st.total_tasks
               /\ st.running_tasks = Cardinality(CallsInFlight)

\* ---- C19
QueryOps == {"get_task", "get_all_tasks", "get_tasks_by_status", "get_task_statistics"}

\* the ids of the tasks get_all_tasks lists, before and after the step
ListedIds == [k \in 1..Len(get_all_tasks) |-> get_all_tasks[k].id]
ListedIdsAfter == [k \in 1..Len(tasks') |-> tasks'[k].id]
IdsOf(list) == {list[k] : k \in 1..Len(list)}

\* ids are handed out in increasing order, so this is the order of creation
InCreationOrder(list) == \A j, k \in 1..Len(list) : j < k => list[j] < list[k]

\* C19 as stated: get_all_tasks (and so get_tasks_by_status) lists the tasks
\* in the order in which they were created
C19_Original == InCreationOrder(ListedIds)

\* C19 amended: the four queries change nothing, get_task gives None exactly
\* for an id that is not in the map, and the lists follow the order of the
\* map: a step keeps the tasks that stay in their order and puts every
\* task that enters the map, created or loaded, behind them
C19_QueriesAndMapOrder ==
    [][/\ (ret = NoReturn /\ ret'.op \in QueryOps)
             => /\ RunnerUnchanged
                /\ UNCHANGED <<used, nops>>
       /\ Returns("get_task") => (ret'.val = None <=> ~HasTask(ret'.id))
       /\ LET kept == SelectSeq(ListedIds, LAMBDA i : i \in IdsOf(ListedIdsAfter))
          IN  /\ Len(kept) <= Len(ListedIdsAfter)
              /\ SubSeq(ListedIdsAfter, 1, Len(kept)) = kept
              /\ \A j \in (Len(kept) + 1)..Len(ListedIdsAfter) :
                    ListedIdsAfter[j] \notin IdsOf(ListedIds)]_vars

\* get_all_tasks has just listed two tasks, the one created first in second
\* place: it was deleted and loaded back
C19_Witness ==
    /\ ret.op = "get_all_tasks"
    /\ Len(get_all_tasks) = 2
    /\ get_all_tasks[1].id > get_all_tasks[2].id

\* ---- C20
\* C20: create_task puts exactly one new task at the end of the map, PENDING
\* with progress 0, no result and no error, under an id that never was in the
\* map; no other object, no handle and no unit changes, nothing is scheduled
C20_CreateTask ==
    [][Returns("create_task")
          => LET id == ret'.id
             IN  /\ id \notin used
                 /\ ~HasTask(id)
                 /\ Len(tasks') = Len(tasks) + 1
                 /\ SubSeq(tasks', 1, Len(tasks)) = tasks
                 /\ tasks'[Len(tasks')].id = id
                 /\ LET o == tasks'[Len(tasks')].obj
                    IN  /\ objs[o] = FreeObj
                        /\ objs'[o].id = id
                        /\ objs'[o].status = PENDING
                        /\ objs'[o].progress = 0
                        /\ objs'[o].result = NoResult
                        /\ objs'[o].error = None
                        /\ \A p \in Objs \ {o} : objs'[p] = objs[p]
                 /\ UNCHANGED <<running_tasks, units, ready, cur, batch>>]_vars

\* create_task has just added a second task while an execute_task call for
\* the first one is in flight
C20_Witness ==
    /\ ret.op = "create_task"
    /\ Len(tasks) = 2
    /\ tasks[2].id = ret.id
    /\ running_tasks[tasks[1].id] # 0
C22_Original ==
    [][(Returns("load_tasks_from_file") /\ ret'.val # None)
          => (tasks' = tasks /\ objs' = objs)]_vars

\* ---- C23
\* the ids of the records of an export, in their order
ExportedIds(e) == [k \in 1..Len(e.tasks) |-> e.tasks[k].id]

\* C23 as stated, first part: export_task_results(None) lists the tasks in
\* the order in which they were created
C23_Original == InCreationOrder(ExportedIds(exported(AllTasks)))

\* the export of these task_ids is what the claim says of it
C23_ExportOf(task_ids) ==
    LET e == exported(task_ids)
    IN  /\ ExportedIds(e) =
               IF task_ids.none THEN [k \in 1..Len(tasks) |-> tasks[k].id]
               ELSE SelectSeq(task_ids.ids, HasTask)
        /\ e.total_count = Len(e.tasks)
        /\ \A k \in 1..Len(e.tasks) :
              LET rec == e.tasks[k]
                  t   == objs[get_task(rec.id)]
              IN  /\ rec.error # None => (t.error # None /\ rec.error = t.error)
                  /\ rec.error = None => t.error \in {None, ""}
                  /\ rec.result # NoResult
                        => (t.result # NoResult /\ rec.result.code = t.result.code)
                  /\ rec.result = NoResult => t.result = NoResult
                  /\ rec.status = t.status
                  /\ rec.progress = t.progress

\* C23 amended: when export_task_results returns, whatever it was called
\* with: export_task_results(None) exports every task of the map in
\* the order of the map, export_task_results(ids) the listed ids that are in
\* the map in the order of the list (a repeated id repeatedly), unknown ids
\* skipped; total_count is the number of records; a record has an error
\* only if the task has one (an empty string is left out) and a result
\* exactly if the task has one; the call changes nothing of the runner
C23_ExportByMapOrList ==
    /\ [](ret.op = "export_task_results"
             => \A task_ids \in ExportArgs(2) : C23_ExportOf(task_ids))
    /\ [][Returns("export_task_results")
             => /\ RunnerUnchanged
                /\ UNCHANGED <<now, used, nops>>]_vars

\* export_task_results has just exported one record from a map of two tasks,
\* the second a FAILED one with its error
C23_Witness ==
    /\ ret.op = "export_task_results"
    /\ ret.id = 1
    /\ Len(tasks) = 2
    /\ objs[tasks[2].obj].status = FAILED
    /\ exported(Listed(<<tasks[2].id, NewId>>)).tasks[1].error = "boom"

\* ---- C24
\* the unit the loop is inside of goes from one stage to the other in the step
Stage(from, to) == Leaves(from) /\ units'[cur].pc = to

\* C24: a unit that starts makes its task RUNNING with progress 10; from
\* there the stages follow in the order parse, generate, validate, complete,
\* each ending in the next one or (parse, generate) in the failure of the
\* pipeline; progress is 10 until the parser returned, then 30 until the
\* generator returned, then 60 until the validation step is over, then 90,
\* and 100 together with COMPLETED; it never decreases inside the pipeline
\* and nothing but the pipeline writes it
C24_StagesInOrder ==
    [][/\ \A u \in Units :
             (units[u].pc = "scheduled" /\ units'[u].pc # "scheduled")
                 => \/ units'[u].pc = "cancelled" /\ objs' = objs
                    \/ /\ units'[u].pc = "parse"
                       /\ objs'[units[u].obj].status = RUNNING
                       /\ objs'[units[u].obj].progress = 10
       /\ Leaves("parse")
             => /\ CurObj.progress = 10
                /\ \/ Stage("parse", "generate") /\ CurObjAfter.progress = 30
                   \/ Stage("parse", "done") /\ CurObjAfter.progress = 10
       /\ Leaves("generate")
             => /\ CurObj.progress = 30
                /\ \/ Stage("generate", "validate") /\ CurObjAfter.progress = 60
                   \/ Stage("generate", "done") /\ CurObjAfter.progress = 30
       /\ Leaves("validate")
             => /\ CurObj.progress = 60
                /\ Stage("validate", "complete")
                /\ CurObjAfter.progress = 90
       /\ Leaves("complete")
             => /\ CurObj.progress = 90
                /\ Stage("complete", "done")
                /\ CurObjAfter.progress = 100
                /\ CurObjAfter.status = COMPLETED
       /\ cur # 0 => CurObjAfter.progress >= CurObj.progress
       /\ \A o \in Objs :
             (objs[o] # FreeObj /\ objs'[o] # FreeObj
                 /\ objs'[o].progress # objs[o].progress)
                 => \/ cur # 0 /\ units[cur].obj = o
                    \/ /\ cur = 0 /\ cur' # 0 /\ units[cur'].obj = o
                       /\ objs'[o].progress = 10]_vars

\* the pipeline of a task is past its validation step, which was skipped, and
\* about to complete: progress 90, status still RUNNING
C24_Witness ==
    /\ cur # 0
    /\ units[cur].pc = "complete"
    /\ units[cur].metadata = NoMeta
    /\ CurObj.progress = 90
    /\ CurObj.status = RUNNING

\* ---- C25
\* C25 as stated: a step that changes the status or the progress of a task
\* leaves the time of that step in its updated_at
C25_Original ==
    [][\A o \in Objs :
          (/\ objs[o] # FreeObj
           /\ objs'[o] # FreeObj
           /\ \/ objs'[o].status # objs[o].status
              \/ objs'[o].progress # objs[o].progress)
              => objs'[o].updated_at = now]_vars

\* ---- C26
\* C26: an id has a handle only while the execute_task call that registered
\* it is in flight (its unit scheduled, running or ended, the call not yet
\* resumed), so with no call in flight the handle map is empty; and when a
\* call that ran a unit returns the task or raises CancelledError, the id has
\* no handle
C26_HandleOnlyInFlight ==
    /\ [](\A id \in TaskIds :
             running_tasks[id] # 0
                 => /\ running_tasks[id] \in CallsInFlight
                    /\ units[running_tasks[id]].id = id)
    /\ [][(Returns("execute_task") /\ ret'.val \in {"task", "CancelledError"})
             => running_tasks'[ret'.id] = 0]_vars

\* an execute_task call has just returned the task and the id has no handle,
\* although a second call for the same id is still in flight
C26_Witness ==
    /\ ret.op = "execute_task"
    /\ ret.val = "task"
    /\ running_tasks[ret.id] = 0
    /\ \E u \in CallsInFlight : units[u].id = ret.id

\* ---- C27
\* the validator was invoked in the step: the unit holds one of its answers
ValidatorInvoked ==
    \E out \in ExecOutcomes : units'[cur].metadata = validate_code_syntax(out)

\* C27: the validation step invokes the validator exactly when the generated
\* code and the parsed language are both non-empty; when it does not, nothing
\* is attached, progress goes to 90 all the same, and the pipeline completes
\* with COMPLETED, 100 and the generated result without validation metadata
C27_ValidatorIffCodeAndLanguage ==
    [][/\ Leaves("validate")
          => /\ ValidatorInvoked
                    <=> (units[cur].code # "" /\ units[cur].language # "")
             /\ ~ValidatorInvoked => units'[cur].metadata = NoMeta
             /\ units'[cur].pc = "complete"
             /\ units'[cur].code = units[cur].code
             /\ CurObjAfter.progress = 90
       /\ (Leaves("complete") /\ units[cur].metadata = NoMeta)
          => /\ units[cur].code = "" \/ units[cur].language = ""
             /\ CurObjAfter.status = COMPLETED
             /\ CurObjAfter.progress = 100
             /\ CurObjAfter.result = CodeResult(units[cur].code)]_vars

\* a pipeline whose parser gave no language has completed: the task holds the
\* generated code and no validation metadata
C27_Witness ==
    \E u \in Units :
        /\ units[u].pc = "done"
        /\ objs[units[u].obj].status = COMPLETED
        /\ objs[units[u].obj].progress = 100
        /\ objs[units[u].obj].result = CodeResult("code")

\* ---- C28
\* a batch with max_concurrent = 0 is in flight
ZeroBatch == batch.pc = "gathering" /\ batch.max_concurrent = 0

\* C28: while a batch with max_concurrent = 0 and a non-empty list is in
\* flight, no member is ever admitted (each is waiting at the semaphore or
\* has not started yet), no unit exists and no pipeline runs, no task changes
\* its status, and the batch stays in flight: it never returns
C28_ZeroNeverAdmits ==
    /\ [](ZeroBatch
             => /\ batch.value = 0
                /\ \A i \in 1..Len(batch.members) :
                      batch.members[i].pc \in {"scheduled", "waiting"}
                /\ CallsInFlight = {}
                /\ cur = 0
                /\ \A id \in TaskIds : running_tasks[id] = 0)
    /\ [][ZeroBatch
             => /\ batch'.pc = "gathering"
                /\ batch'.max_concurrent = 0
                /\ \A o \in Objs :
                      (objs[o] # FreeObj /\ objs'[o] # FreeObj)
                          => objs'[o].status = objs[o].status]_vars

\* a batch of two PENDING tasks with max_concurrent = 0: both members wait at
\* the semaphore, the loop has nothing left to run, the tasks are PENDING
C28_Witness ==
    /\ ZeroBatch
    /\ ready = <<>>
    /\ Len(batch.members) = 2
    /\ batch.waiters = <<1, 2>>
    /\ \A i \in 1..2 :
          /\ batch.members[i].pc = "waiting"
          /\ HasTask(batch.task_ids[i])
          /\ objs[get_task(batch.task_ids[i])].status = PENDING

\* ---- C29
\* C29 as stated: a task of the map that a pipeline made RUNNING has a
\* handle; a RUNNING task a caller can see was loaded from a file, its id has
\* no handle, and cancel_task on it returns True and sets CANCELLED without
\* signalling a unit
C29_Original ==
    [][/\ (cur # 0 /\ get_task(units[cur].id) = units[cur].obj
              /\ CurObj.status = RUNNING)
          => running_tasks[units[cur].id] # 0
       /\ (Returns("cancel_task") /\ HasTask(ret'.id)
              /\ objs[get_task(ret'.id)].status = RUNNING)
          => /\ ret'.val = "True"
             /\ objs'[get_task(ret'.id)].status = CANCELLED
             /\ running_tasks[ret'.id] = 0
             /\ units' = units]_vars

\* ---- C30
\* C30 as stated: once delete_task has removed a task, its id never is in the
\* map again and no stage of a pipeline is invoked for it: a unit starts and
\* a parser, generator or validator is called only for a task of the map
C30_Original ==
    [][/\ \A id \in used : ~HasTask(id) => IndexAfter(id) = 0
       /\ \A u \in Units :
             (units[u].pc = "scheduled" /\ units'[u].pc = "parse")
                 => units[u].obj \in MapObjs
       /\ \A stage \in {"parse", "generate", "validate"} :
             Leaves(stage) => units[cur].obj \in MapObjs]_vars
====
